---- MODULE Spec2Model ----
(***************************************************************************)
(* Model of src/game.rs (dearfl/minesweeper): the minesweeper board kept   *)
(* as bevy entities (Cell + Covered / Flagged markers + material), the      *)
(* click observers (interact / on_uncover), the deferred command queue     *)
(* with its OnRemove<Covered> observer, and the GameState machine           *)
(* (Prepare / Running / Over) driven by NextState requests that are        *)
(* applied by the StateTransition schedule.                                *)
(*                                                                         *)
(* The hovered / unhover observers are left out: they only swap the        *)
(* material of a cell that is Covered and not Flagged between `covered`    *)
(* and `hovered`, and nothing in the game logic reads a material.          *)
(***************************************************************************)
EXTENDS Integers, Sequences, FiniteSets, TLC

\* ------------------------------------------------------------------ bounds
\* Boards of X columns and Y rows are explored for every X, Y > 0 with
\* X * Y <= MaxCells; BOMBS ranges over 0 .. X*Y + MaxExtraBombs.
MaxCells == 4
MaxExtraBombs == 1

VARIABLES
    X,          \* const X: columns of the board
    Y,          \* const Y: rows of the board
    BOMBS,      \* const BOMBS: requested number of bombs
    state,      \* Res<State<GameState>>
    next,       \* ResMut<NextState<GameState>>: "Unchanged" or the pending state
    cells,      \* the spawned cell entities: entity id -> components
    panicked,   \* a system or observer has panicked (the app is dead)
    pc,         \* "boot" (before the startup StateTransition), "startup", "main"
    last        \* the system that ran last, with the Pointer<Click> it handled

vars == <<X, Y, BOMBS, state, next, cells, panicked, pc, last>>

\* ------------------------------------------------------------- GameState
GameState == {"Prepare", "Running", "Over"}

is_running(s) == s = "Running"

\* ------------------------------------------------------------- Materials
\* Materials: one handle per field; `count` is an array of 8 handles,
\* count[k] in the source is MaterialsCount[k + 1] here (1-based sequences).
MaterialsCount ==
    <<"count0", "count1", "count2", "count3",
      "count4", "count5", "count6", "count7">>

Materials ==
    [covered |-> "covered", hovered |-> "hovered", flagged |-> "flagged",
     bomb |-> "bomb", count |-> MaterialsCount]

\* --------------------------------------------------------------- helpers
Min(a, b) == IF a < b THEN a ELSE b

RECURSIVE Ascending(_)
Ascending(S) ==
    IF S = {} THEN <<>>
    ELSE LET m == CHOOSE a \in S : \A b \in S : a <= b
         IN <<m>> \o Ascending(S \ {m})

Reverse(s) == [i \in 1..Len(s) |-> s[Len(s) + 1 - i]]

\* Query iteration order is not fixed by bevy (it follows archetype and
\* table layout): the model lets every query run in either direction.
QueryOrders == {"asc", "desc"}

QueryIter(S, ord) == IF ord = "asc" THEN Ascending(S) ELSE Reverse(Ascending(S))

\* ---------------------------------------------------------- Board::new
\* Mutant of Unshuffled: an off-by-one in the bomb test.
Unshuffled_inclusive(columns, rows, bombs) ==
    [idx \in 0..(columns * rows - 1) |-> idx <= bombs]

\* The vector (0..columns*rows).map(|idx| idx < bombs) before the shuffle.
Unshuffled(columns, rows, bombs) ==
    [idx \in 0..(columns * rows - 1) |-> idx < bombs]

CountTrue(v) == Cardinality({i \in DOMAIN v : v[i]})

\* grids.shuffle(&mut rng): every rearrangement of the vector.
Shuffles(v) ==
    {w \in [DOMAIN v -> BOOLEAN] : CountTrue(w) = CountTrue(v)}

\* Board::new: the cells of one shuffled vector.
BoardNew(columns, grids) ==
    [idx \in DOMAIN grids |->
        [x |-> idx % columns, y |-> idx \div columns, is_bomb |-> grids[idx]]]

\* prepare: one entity per cell of the board, Covered, with the covered
\* material and without Flagged.
Spawn(board) ==
    [idx \in DOMAIN board |->
        [x |-> board[idx].x, y |-> board[idx].y, is_bomb |-> board[idx].is_bomb,
         covered |-> TRUE, flagged |-> FALSE, material |-> Materials.covered]]

\* ------------------------------------------------------- count_adjacents
IsAdjacent(g, target, ent) ==
    /\ g[target].x - 1 <= g[ent].x
    /\ g[ent].x <= g[target].x + 1
    /\ g[target].y - 1 <= g[ent].y
    /\ g[ent].y <= g[target].y + 1
    /\ ~(g[ent].x = g[target].x /\ g[ent].y = g[target].y)

\* Mutant of count_adjacents: flagged cells are kept among the adjacents.
count_adjacents_flagged_too(g, target, ord) ==
    LET adjacents == {ent \in DOMAIN g : IsAdjacent(g, target, ent)}
    IN [adjacents |-> QueryIter({ent \in adjacents : g[ent].covered}, ord),
        cnt_bombs |-> Cardinality({ent \in adjacents : g[ent].is_bomb}),
        cnt_flagged |-> Cardinality({ent \in adjacents : g[ent].flagged})]

count_adjacents(g, target, ord) ==
    LET adjacents == {ent \in DOMAIN g : IsAdjacent(g, target, ent)}
    IN [adjacents |->
            QueryIter({ent \in adjacents : ~g[ent].flagged /\ g[ent].covered}, ord),
        cnt_bombs |-> Cardinality({ent \in adjacents : g[ent].is_bomb}),
        cnt_flagged |-> Cardinality({ent \in adjacents : g[ent].flagged})]

\* --------------------------------------------------------------- commands
\* A deferred command: command.entity(e).remove::<Covered>() and so on.
Cmd(op, e) == [op |-> op, e |-> e]

RemoveCoveredAll(ents) == [i \in 1..Len(ents) |-> Cmd("remove_covered", ents[i])]

\* Mutant of toggle_flag: the Covered test on the target is missing.
toggle_flag_uncovered(g, target) ==
    IF target \notin DOMAIN g THEN [g |-> g, cmds |-> <<>>]
    ELSE IF g[target].flagged
         THEN [g |-> [g EXCEPT ![target].material = Materials.covered],
               cmds |-> <<Cmd("remove_flagged", target)>>]
         ELSE [g |-> [g EXCEPT ![target].material = Materials.flagged],
               cmds |-> <<Cmd("insert_flagged", target)>>]

\* Mutant of toggle_flag: removing the flag leaves the flagged material.
toggle_flag_stale_material(g, target) ==
    IF target \notin DOMAIN g THEN [g |-> g, cmds |-> <<>>]
    ELSE IF ~g[target].covered THEN [g |-> g, cmds |-> <<>>]
    ELSE IF g[target].flagged
         THEN [g |-> g, cmds |-> <<Cmd("remove_flagged", target)>>]
         ELSE [g |-> [g EXCEPT ![target].material = Materials.flagged],
               cmds |-> <<Cmd("insert_flagged", target)>>]

\* ------------------------------------------- InterationParam::toggle_flag
\* Returns the grid after the material write and the queued commands.
toggle_flag(g, target) ==
    IF target \notin DOMAIN g THEN [g |-> g, cmds |-> <<>>]
    ELSE IF ~g[target].covered THEN [g |-> g, cmds |-> <<>>]
    ELSE IF g[target].flagged
         THEN [g |-> [g EXCEPT ![target].material = Materials.covered],
               cmds |-> <<Cmd("remove_flagged", target)>>]
         ELSE [g |-> [g EXCEPT ![target].material = Materials.flagged],
               cmds |-> <<Cmd("insert_flagged", target)>>]

\* The prefix of a sequence of entities up to and including its first bomb.
RECURSIVE UntilBomb(_, _)
UntilBomb(g, ents) ==
    IF ents = <<>> THEN <<>>
    ELSE IF g[Head(ents)].is_bomb THEN <<Head(ents)>>
    ELSE <<Head(ents)>> \o UntilBomb(g, Tail(ents))

\* Mutant of uncover: the chord loop stops at the first bomb it uncovers.
uncover_until_bomb(g, target, ord) ==
    IF target \notin DOMAIN g THEN <<>>
    ELSE LET ca == count_adjacents(g, target, ord)
         IN IF g[target].flagged THEN <<>>
            ELSE IF g[target].covered THEN <<Cmd("remove_covered", target)>>
            ELSE IF ca.cnt_flagged >= ca.cnt_bombs
                 THEN RemoveCoveredAll(UntilBomb(g, ca.adjacents))
            ELSE <<>>

\* Mutant of uncover: the Flagged test on the target is missing.
uncover_ignores_flag(g, target, ord) ==
    IF target \notin DOMAIN g THEN <<>>
    ELSE LET ca == count_adjacents(g, target, ord)
         IN IF g[target].covered THEN <<Cmd("remove_covered", target)>>
            ELSE IF ca.cnt_flagged >= ca.cnt_bombs THEN RemoveCoveredAll(ca.adjacents)
            ELSE <<>>

\* Mutant of uncover: the chord asks for strictly more flags than bombs.
uncover_strict(g, target, ord) ==
    IF target \notin DOMAIN g THEN <<>>
    ELSE LET ca == count_adjacents(g, target, ord)
         IN IF g[target].flagged THEN <<>>
            ELSE IF g[target].covered THEN <<Cmd("remove_covered", target)>>
            ELSE IF ca.cnt_flagged > ca.cnt_bombs THEN RemoveCoveredAll(ca.adjacents)
            ELSE <<>>

\* ----------------------------------------------- InterationParam::uncover
\* Returns the queued commands (uncover writes no component itself).
uncover(g, target, ord) ==
    IF target \notin DOMAIN g THEN <<>>
    ELSE LET ca == count_adjacents(g, target, ord)
         IN IF g[target].flagged THEN <<>>
            ELSE IF g[target].covered THEN <<Cmd("remove_covered", target)>>
            ELSE IF ca.cnt_flagged >= ca.cnt_bombs THEN RemoveCoveredAll(ca.adjacents)
            ELSE <<>>

\* Mutant of InterationParam::on_uncover: a cell with one adjacent bomb
\* cascades too.
InterationParam_on_uncover_eager(g, target, ord) ==
    LET ca == count_adjacents(g, target, ord)
    IN IF g[target].is_bomb
       THEN [g |-> [g EXCEPT ![target].material = Materials.bomb],
             cmds |-> <<>>, ret |-> TRUE, panic |-> FALSE]
       ELSE IF ca.cnt_bombs >= Len(Materials.count)
       THEN [g |-> g, cmds |-> <<>>, ret |-> FALSE, panic |-> TRUE]
       ELSE [g |-> [g EXCEPT ![target].material = Materials.count[ca.cnt_bombs + 1]],
             cmds |-> IF ca.cnt_bombs <= 1 THEN RemoveCoveredAll(ca.adjacents) ELSE <<>>,
             ret |-> FALSE, panic |-> FALSE]

\* Mutant of InterationParam::on_uncover: an uncovered bomb cascades too.
InterationParam_on_uncover_bomb_cascade(g, target, ord) ==
    LET ca == count_adjacents(g, target, ord)
    IN IF g[target].is_bomb
       THEN [g |-> [g EXCEPT ![target].material = Materials.bomb],
             cmds |-> RemoveCoveredAll(ca.adjacents), ret |-> TRUE, panic |-> FALSE]
       ELSE IF ca.cnt_bombs >= Len(Materials.count)
       THEN [g |-> g, cmds |-> <<>>, ret |-> FALSE, panic |-> TRUE]
       ELSE [g |-> [g EXCEPT ![target].material = Materials.count[ca.cnt_bombs + 1]],
             cmds |-> IF ca.cnt_bombs = 0 THEN RemoveCoveredAll(ca.adjacents) ELSE <<>>,
             ret |-> FALSE, panic |-> FALSE]

\* -------------------------------------------- InterationParam::on_uncover
\* Returns the grid after the material write, the queued commands, the
\* returned flag, and whether indexing materials.count panicked.
InterationParam_on_uncover(g, target, ord) ==
    LET ca == count_adjacents(g, target, ord)
    IN IF g[target].is_bomb
       THEN [g |-> [g EXCEPT ![target].material = Materials.bomb],
             cmds |-> <<>>, ret |-> TRUE, panic |-> FALSE]
       ELSE IF ca.cnt_bombs >= Len(Materials.count)
       THEN [g |-> g, cmds |-> <<>>, ret |-> FALSE, panic |-> TRUE]
       ELSE [g |-> [g EXCEPT ![target].material = Materials.count[ca.cnt_bombs + 1]],
             cmds |-> IF ca.cnt_bombs = 0 THEN RemoveCoveredAll(ca.adjacents) ELSE <<>>,
             ret |-> FALSE, panic |-> FALSE]

\* ------------------------------------------------ on_uncover (the observer)
\* w is the world: [g, next, panic, n]; st is the current State<GameState>.
on_uncover(w, target, st, ord) ==
    LET r == InterationParam_on_uncover(w.g, target, ord)
    IN [w |-> [g |-> r.g,
               next |-> IF r.ret /\ is_running(st) THEN "Over" ELSE w.next,
               panic |-> r.panic,
               n |-> w.n],
        cmds |-> r.cmds]

\* --------------------------------------------------- the command queue
\* Applying the queue: each command runs to completion, the OnRemove
\* observer of Covered runs before the component goes, and the commands an
\* observer queued are flushed before the rest of the queue.
Despawned(g, e) == [i \in (DOMAIN g) \ {e} |-> g[i]]

\* Mutant of ApplyCommands: removing Covered from a cell that no longer has
\* it runs the observer again.
RECURSIVE ApplyCommands_revisit(_, _, _, _)
ApplyCommands_revisit(w, queue, st, ord) ==
    IF queue = <<>> \/ w.panic THEN w
    ELSE
      LET cmd == Head(queue)
          rest == Tail(queue)
          e == cmd.e
      IN IF e \notin DOMAIN w.g THEN ApplyCommands_revisit(w, rest, st, ord)
         ELSE IF cmd.op = "insert_flagged"
         THEN ApplyCommands_revisit([w EXCEPT !.g[e].flagged = TRUE], rest, st, ord)
         ELSE IF cmd.op = "remove_flagged"
         THEN ApplyCommands_revisit([w EXCEPT !.g[e].flagged = FALSE], rest, st, ord)
         ELSE
           LET r == on_uncover(w, e, st, ord)
               gone == IF cmd.op = "despawn"
                       THEN Despawned(r.w.g, e)
                       ELSE [r.w.g EXCEPT ![e].covered = FALSE]
               w2 == [r.w EXCEPT !.g = gone, !.n = r.w.n + 1]
           IN IF r.w.panic THEN r.w
              ELSE ApplyCommands_revisit(w2, r.cmds \o rest, st, ord)

RECURSIVE ApplyCommands(_, _, _, _)
ApplyCommands(w, queue, st, ord) ==
    IF queue = <<>> \/ w.panic THEN w
    ELSE
      LET cmd == Head(queue)
          rest == Tail(queue)
          e == cmd.e
      IN IF e \notin DOMAIN w.g THEN ApplyCommands(w, rest, st, ord)
         ELSE IF cmd.op = "insert_flagged"
         THEN ApplyCommands([w EXCEPT !.g[e].flagged = TRUE], rest, st, ord)
         ELSE IF cmd.op = "remove_flagged"
         THEN ApplyCommands([w EXCEPT !.g[e].flagged = FALSE], rest, st, ord)
         ELSE IF ~w.g[e].covered
         THEN IF cmd.op = "despawn"
              THEN ApplyCommands([w EXCEPT !.g = Despawned(w.g, e)], rest, st, ord)
              ELSE ApplyCommands(w, rest, st, ord)
         ELSE
           LET r == on_uncover(w, e, st, ord)
               gone == IF cmd.op = "despawn"
                       THEN Despawned(r.w.g, e)
                       ELSE [r.w.g EXCEPT ![e].covered = FALSE]
               w2 == [r.w EXCEPT !.g = gone, !.n = r.w.n + 1]
           IN IF r.w.panic THEN r.w
              ELSE ApplyCommands(w2, r.cmds \o rest, st, ord)

World(g, nx) == [g |-> g, next |-> nx, panic |-> FALSE, n |-> 0]

\* Mutant of interact: the is_running guard is missing.
interact_unguarded(w, button, target, st, ord) ==
    IF button = "Primary"
    THEN ApplyCommands(w, uncover(w.g, target, ord), st, ord)
    ELSE IF button = "Secondary"
         THEN LET t == toggle_flag(w.g, target)
              IN ApplyCommands([w EXCEPT !.g = t.g], t.cmds, st, ord)
    ELSE w

\* ---------------------------------------------------------------- interact
interact(w, button, target, st, ord) ==
    IF ~is_running(st) THEN w
    ELSE IF button = "Primary"
         THEN ApplyCommands(w, uncover(w.g, target, ord), st, ord)
    ELSE IF button = "Secondary"
         THEN LET t == toggle_flag(w.g, target)
              IN ApplyCommands([w EXCEPT !.g = t.g], t.cmds, st, ord)
    ELSE w

\* Mutant of success: one Covered bomb is enough (any instead of all).
success_any_bomb(g, nx) ==
    LET query == {e \in DOMAIN g : g[e].covered}
        count == Cardinality(query)
        ok == \E e \in query : g[e].is_bomb
    IN IF count > 0 /\ ok THEN "Over" ELSE nx

\* ------------------------------------------------------------------ success
success(g, nx) ==
    LET query == {e \in DOMAIN g : g[e].covered}
        count == Cardinality(query)
        ok == \A e \in query : g[e].is_bomb
    IN IF count > 0 /\ ok THEN "Over" ELSE nx

\* Mutant of reveal_bombs: the query also asks for Without<Flagged>.
reveal_bombs_unflagged(g, ord) ==
    LET query == QueryIter({e \in DOMAIN g : g[e].covered /\ ~g[e].flagged}, ord)
        bombs == SelectSeq(query, LAMBDA e : g[e].is_bomb)
    IN RemoveCoveredAll(bombs)

\* ------------------------------------------------------------- reveal_bombs
reveal_bombs(g, ord) ==
    LET query == QueryIter({e \in DOMAIN g : g[e].covered}, ord)
        bombs == SelectSeq(query, LAMBDA e : g[e].is_bomb)
    IN RemoveCoveredAll(bombs)

\* ------------------------------------------------------------------ cleanup
\* Query<Entity, With<Cell>> walks the cells table by table, in the order
\* the tables were created: the table of the archetype prepare spawns
\* (Covered, no Flagged) is the first, the cells that lost Covered or got
\* Flagged have moved to later tables.
TableIter(g, S, ord) ==
    LET spawned == {e \in S : g[e].covered /\ ~g[e].flagged}
    IN QueryIter(spawned, ord) \o QueryIter(S \ spawned, ord)

cleanup(g, ord) ==
    LET query == TableIter(g, DOMAIN g, ord)
    IN [i \in 1..Len(query) |-> Cmd("despawn", query[i])]

\* ---------------------------------------------------------------- history
\* Primary uncovers, Secondary toggles the flag; every other button falls
\* into the `_ => {}` arm of interact and is left out of the explored inputs.
PointerButton == {"Primary", "Secondary"}

\* The derived state of a cell, as the player sees it.
CellState(c) ==
    IF c.covered THEN (IF c.flagged THEN "Flagged" ELSE "Covered")
    ELSE IF c.is_bomb THEN "Exploded" ELSE "Revealed"

\* `last` names the system that ran last; for interact it also keeps the
\* button of the click, what the clicked cell was (its state and whether it
\* is a bomb) and how many Covered components the click removed.
Ran(sys) ==
    [sys |-> sys, button |-> "none", before |-> "none", is_bomb |-> FALSE, n |-> 0]

Clicked(button, cell, n) ==
    [sys |-> "interact", button |-> button, before |-> CellState(cell),
     is_bomb |-> cell.is_bomb, n |-> n]

\* ------------------------------------------------------------------ actions
Configs ==
    {c \in (1..MaxCells) \X (1..MaxCells) \X (0..(MaxCells + MaxExtraBombs)) :
        /\ c[1] * c[2] <= MaxCells
        /\ c[3] <= c[1] * c[2] + MaxExtraBombs}

\* The smallest board on which a cell has 8 adjacent bombs.
DenseConfigs == {<<3, 3, 8>>}

InitWith(cfgs) ==
    /\ \E c \in cfgs : X = c[1] /\ Y = c[2] /\ BOMBS = c[3]
    /\ state = "Prepare"
    /\ next = "Unchanged"
    /\ cells = <<>>
    /\ panicked = FALSE
    /\ pc = "boot"
    /\ last = Ran("build")

Init == InitWith(Configs)

InitDense == InitWith(DenseConfigs)

\* prepare (OnEnter(GameState::Prepare)): spawn a fresh board.
prepare(g, grids) ==
    LET board == BoardNew(X, grids)
        fresh == Spawn(board)
    IN [i \in (DOMAIN g) \cup (DOMAIN fresh) |->
            IF i \in DOMAIN fresh THEN fresh[i] ELSE g[i]]

\* The StateTransition schedule run at startup: the initial state is
\* entered, so OnEnter(Prepare) runs prepare.
StartupTransition ==
    /\ pc = "boot"
    /\ ~panicked
    /\ \E grids \in Shuffles(Unshuffled(X, Y, BOMBS)) :
          cells' = prepare(cells, grids)
    /\ next' = "Running"
    /\ pc' = "startup"
    /\ last' = Ran("state_transition")
    /\ UNCHANGED <<X, Y, BOMBS, state, panicked>>

\* setup (Startup)
Setup ==
    /\ pc = "startup"
    /\ ~panicked
    /\ next' = "Running"
    /\ pc' = "main"
    /\ last' = Ran("setup")
    /\ UNCHANGED <<X, Y, BOMBS, state, cells, panicked>>

\* A Pointer<Click> of `button` on a cell entity, handled by the interact
\* observer.
Interact(button) ==
    /\ pc = "main"
    /\ ~panicked
    /\ button \in PointerButton
    /\ \E target \in DOMAIN cells, ord \in QueryOrders :
          LET w == interact(World(cells, next), button, target, state, ord)
          IN /\ cells' = w.g
             /\ next' = w.next
             /\ panicked' = w.panic
             /\ last' = Clicked(button, cells[target], w.n)
    /\ UNCHANGED <<X, Y, BOMBS, state, pc>>

\* PointerButton::Primary => interation.uncover(target)
Reveal == Interact("Primary")

\* PointerButton::Secondary => interation.toggle_flag(target)
ToggleFlag == Interact("Secondary")

\* success (FixedUpdate, run_if in_state(Running))
Success ==
    /\ pc = "main"
    /\ ~panicked
    /\ state = "Running"
    /\ next' = success(cells, next)
    /\ last' = Ran("success")
    /\ UNCHANGED <<X, Y, BOMBS, state, cells, panicked, pc>>

\* restart (Update, run_if in_state(Over) and Space just released)
Restart ==
    /\ pc = "main"
    /\ ~panicked
    /\ state = "Over"
    /\ next' = "Prepare"
    /\ last' = Ran("restart")
    /\ UNCHANGED <<X, Y, BOMBS, state, cells, panicked, pc>>

\* The StateTransition schedule of a frame: the pending NextState is taken,
\* OnExit(exited) and then OnEnter(entered) run, each followed by the
\* application of its commands.
OnExit(w, exited, entered, ord) ==
    IF exited = "Over" THEN ApplyCommands(w, cleanup(w.g, ord), entered, ord)
    ELSE w

OnEnter(w, entered, grids, ord) ==
    IF w.panic THEN w
    ELSE IF entered = "Over" THEN ApplyCommands(w, reveal_bombs(w.g, ord), entered, ord)
    ELSE IF entered = "Prepare"
         THEN [w EXCEPT !.g = prepare(w.g, grids), !.next = "Running"]
    ELSE w

\* The shuffles prepare may draw when `entered` is Prepare (one dummy
\* value otherwise: no board is generated).
Draws(entered) ==
    IF entered = "Prepare" THEN Shuffles(Unshuffled(X, Y, BOMBS))
    ELSE {Unshuffled(X, Y, BOMBS)}

StateTransition ==
    /\ pc = "main"
    /\ ~panicked
    /\ IF next = "Unchanged" \/ next = state
       THEN \* nothing pending (or an identity transition): no schedule runs
            /\ next' = "Unchanged"
            /\ UNCHANGED <<state, cells, panicked>>
       ELSE /\ \E ord \in QueryOrders, grids \in Draws(next) :
                  LET w0 == World(cells, "Unchanged")
                      w1 == OnExit(w0, state, next, ord)
                      w2 == OnEnter(w1, next, grids, ord)
                  IN /\ cells' = w2.g
                     /\ next' = w2.next
                     /\ panicked' = w2.panic
            /\ state' = next
    /\ last' = Ran("state_transition")
    /\ UNCHANGED <<X, Y, BOMBS, pc>>

Next ==
    \/ StartupTransition
    \/ Setup
    \/ Reveal
    \/ ToggleFlag
    \/ Success
    \/ Restart
    \/ StateTransition

Spec == Init /\ [][Next]_vars

\* The dense board played with the primary button only.
NextDense ==
    \/ StartupTransition
    \/ Setup
    \/ Reveal
    \/ Success
    \/ Restart
    \/ StateTransition

SpecDense == InitDense /\ [][NextDense]_vars

\* =============================================================== properties
\* The board as the player sees it, read off the grid by coordinates (an
\* entity's index is its place in Board::grids).
Entities == DOMAIN cells

Col(e) == e % X

Row(e) == e \div X

Abs(a) == IF a < 0 THEN -a ELSE a

\* The in-bounds 8-neighbours of a cell.
Neighbours(e) ==
    {d \in Entities : d # e /\ Abs(Col(d) - Col(e)) <= 1 /\ Abs(Row(d) - Row(e)) <= 1}

MineCount(e) == Cardinality({d \in Neighbours(e) : cells[d].is_bomb})

FlagCount(e) == Cardinality({d \in Neighbours(e) : cells[d].flagged})

\* Covered and not flagged.
Open(e) == cells[e].covered /\ ~cells[e].flagged

ZeroCell(e) == ~cells[e].is_bomb /\ MineCount(e) = 0

\* The material that shows Revealed(k), for k in 0..8.
CountName ==
    [k \in 0..8 |->
        CASE k = 0 -> "count0" [] k = 1 -> "count1" [] k = 2 -> "count2"
          [] k = 3 -> "count3" [] k = 4 -> "count4" [] k = 5 -> "count5"
          [] k = 6 -> "count6" [] k = 7 -> "count7" [] OTHER -> "count8"]

\* What an uncovered cell shows: the bomb, or its count.
Face(e) == IF cells[e].is_bomb THEN "bomb" ELSE CountName[MineCount(e)]

\* The grid with the cells of S uncovered and showing their faces.
Shown(S) ==
    [e \in Entities |->
        IF e \in S THEN [cells[e] EXCEPT !.covered = FALSE, !.material = Face(e)]
        ELSE cells[e]]

\* This step is a click of `button` handled by interact.
ClickStep(button) == last'.sys = "interact" /\ last'.button = button

AfterClick(button) == last.sys = "interact" /\ last.button = button

\* A request for Over stays pending until StateTransition applies it.
OverIsApplied ==
    /\ (next = "Over" /\ last'.sys # "state_transition") => next' = "Over"
    /\ (next = "Over" /\ last'.sys = "state_transition") => state' = "Over"

\* ---------------------------------------------------------------------- C1
\* Every non-mine cell is Revealed and every mine is still Covered or Flagged.
WinCondition ==
    /\ Entities # {}
    /\ \A e \in Entities :
          IF cells[e].is_bomb THEN cells[e].covered
          ELSE CellState(cells[e]) = "Revealed"

\* C1 (as claimed): whatever the mine count, BOMBS = 0 included, once the
\* win check has run on a Running board whose non-mine cells are all
\* Revealed and whose mines are all Covered or Flagged, Over is requested.
C1_WinEndsSession ==
    (last.sys = "success" /\ state = "Running" /\ WinCondition) => next = "Over"

\* ---------------------------------------------------------------------- C2
\* C2: while Running, a Reveal of a Covered, unflagged mine uncovers that
\* cell with the bomb material, changes no other cell, does not panic and
\* requests Over, which the next StateTransition applies.
C2_RevealMine ==
    /\ [][(ClickStep("Primary") /\ state = "Running"
            /\ last'.before = "Covered" /\ last'.is_bomb)
          => /\ \E t \in Entities :
                  /\ Open(t) /\ cells[t].is_bomb
                  /\ cells' = [cells EXCEPT ![t].covered = FALSE,
                                            ![t].material = "bomb"]
             /\ last'.n = 1
             /\ next' = "Over"
             /\ state' = state
             /\ ~panicked']_vars
    /\ [][OverIsApplied]_vars

C2_Witness ==
    /\ AfterClick("Primary") /\ last.before = "Covered" /\ last.is_bomb
    /\ state = "Running" /\ next = "Over"
    /\ \E e \in Entities : CellState(cells[e]) = "Exploded"
    /\ \E e \in Entities : cells[e].covered

\* ---------------------------------------------------------------------- C3
\* The zero-count cells 8-connected to S through zero-count cells, whatever
\* their state.
RECURSIVE ZeroRegionFrom(_)
ZeroRegionFrom(S) ==
    LET T == S \cup {d \in Entities : ZeroCell(d) /\ \E z \in S : d \in Neighbours(z)}
    IN IF T = S THEN S ELSE ZeroRegionFrom(T)

RegionWithBorder(t) ==
    LET Z == ZeroRegionFrom({t})
    IN Z \cup UNION {Neighbours(z) : z \in Z}

\* The cells a cascade started on S reaches: the neighbours, Covered and
\* unflagged before the command, of the zero-count cells already reached.
RECURSIVE CascadeFrom(_)
CascadeFrom(S) ==
    LET T == S \cup {d \in Entities :
                        Open(d) /\ \E z \in S : ZeroCell(z) /\ d \in Neighbours(z)}
    IN IF T = S THEN S ELSE CascadeFrom(T)

\* This step is a Reveal, while Running, of a Covered, unflagged non-mine.
RevealsNonMine ==
    /\ ClickStep("Primary") /\ state = "Running"
    /\ last'.before = "Covered" /\ ~last'.is_bomb

\* C3 (as claimed): a Reveal that uncovers a zero-count cell t leaves
\* Revealed, with their counts, all cells of t's zero region and of its
\* numbered border, and changes no other cell.
C3_WholeRegion ==
    [][RevealsNonMine =>
        \A t \in Entities :
            (Open(t) /\ ZeroCell(t) /\ ~cells'[t].covered) =>
                /\ \A c \in RegionWithBorder(t) :
                      /\ CellState(cells'[c]) = "Revealed"
                      /\ cells'[c].material = CountName[MineCount(c)]
                /\ \A c \in Entities \ RegionWithBorder(t) : cells'[c] = cells[c]]_vars

\* C3 (amended): a Reveal that uncovers a zero-count cell t uncovers, with
\* their counts, exactly the cells reached from t through Covered, unflagged
\* zero-count cells and their Covered, unflagged neighbours; every other
\* cell (flagged cells included) is unchanged, nothing panics and no state
\* change is requested.
C3_Cascade ==
    [][RevealsNonMine =>
        \A t \in Entities :
            (Open(t) /\ ZeroCell(t) /\ ~cells'[t].covered) =>
                /\ cells' = Shown(CascadeFrom({t}))
                /\ last'.n = Cardinality(CascadeFrom({t}))
                /\ next' = next
                /\ ~panicked']_vars

\* A cascade ran and stopped at a flagged cell.
C3_Witness ==
    /\ AfterClick("Primary") /\ last.before = "Covered" /\ ~last.is_bomb
    /\ last.n >= 2
    /\ state = "Running"
    /\ \E e \in Entities :
          /\ CellState(cells[e]) = "Flagged" /\ ZeroCell(e)
          /\ \E z \in Neighbours(e) : ZeroCell(z) /\ CellState(cells[z]) = "Revealed"

\* ---------------------------------------------------------------------- C4
\* C4: while Running, a Reveal on a Revealed cell t with at least as many
\* flagged neighbours as mine neighbours uncovers every Covered, unflagged
\* neighbour of t (a mine among them shows the bomb and Over is requested);
\* with fewer flagged neighbours it changes nothing.
C4_Chord ==
    \A t \in Entities, ord \in QueryOrders :
        (pc = "main" /\ ~panicked /\ state = "Running"
            /\ CellState(cells[t]) = "Revealed") =>
            LET w == interact(World(cells, next), "Primary", t, state, ord)
                open == {d \in Neighbours(t) : Open(d)}
            IN IF FlagCount(t) >= MineCount(t)
               THEN /\ \A d \in open :
                         ~w.g[d].covered /\ w.g[d].material = Face(d)
                    /\ \A d \in Entities :
                         cells[d].flagged \/ ~cells[d].covered => w.g[d] = cells[d]
                    /\ (\E d \in open : cells[d].is_bomb) => w.next = "Over"
                    /\ (\A d \in open : ~cells[d].is_bomb) => w.next = next
                    /\ ~w.panic
               ELSE w.g = cells /\ w.next = next /\ ~w.panic

\* A chord has just uncovered cells, a mine among them.
C4_Witness ==
    /\ AfterClick("Primary") /\ last.before = "Revealed"
    /\ last.n >= 2
    /\ state = "Running" /\ next = "Over"
    /\ \E e \in Entities : CellState(cells[e]) = "Exploded"

\* ---------------------------------------------------------------------- C5
\* C5 (as claimed): while Running, a Reveal of a Covered, unflagged non-mine
\* never panics and leaves the cell uncovered showing exactly the number of
\* mines among its neighbours, for every number 0..8; and what a Revealed
\* cell shows is never changed while its board lives.
C5_RevealCounts ==
    /\ [][RevealsNonMine =>
            /\ ~panicked'
            /\ \E t \in Entities :
                  /\ Open(t) /\ ~cells[t].is_bomb
                  /\ ~cells'[t].covered
                  /\ cells'[t].material = CountName[MineCount(t)]]_vars
    /\ [][\A e \in Entities :
            (CellState(cells[e]) = "Revealed" /\ e \in DOMAIN cells'
                /\ ~(last'.sys = "state_transition" /\ state' = "Prepare"))
            => cells'[e].material = cells[e].material]_vars

\* ---------------------------------------------------------------------- C6
\* C6 (as claimed): in every reachable state a cell that carries Flagged
\* still carries Covered.
C6_OneState == \A e \in Entities : cells[e].flagged => cells[e].covered

\* ---------------------------------------------------------------------- C7
\* C7: the StateTransition that enters Over leaves every mine, Covered or
\* Flagged before, uncovered with the bomb material, and leaves every
\* non-mine cell exactly as it was.
C7_Disclosure ==
    [][(state # "Over" /\ state' = "Over") =>
        /\ DOMAIN cells' = Entities
        /\ ~panicked'
        /\ \A e \in Entities :
              IF cells[e].is_bomb
              THEN ~cells'[e].covered /\ cells'[e].material = "bomb"
              ELSE cells'[e] = cells[e]]_vars

\* Over was just entered: a flagged mine is disclosed, a covered non-mine
\* is still covered.
C7_Witness ==
    /\ state = "Over" /\ last.sys = "state_transition"
    /\ \E e \in Entities :
          cells[e].is_bomb /\ cells[e].flagged /\ ~cells[e].covered
    /\ \E e \in Entities : ~cells[e].is_bomb /\ cells[e].covered

\* ---------------------------------------------------------------------- C8
\* C8: a click handled while the state is Over or Prepare changes no cell,
\* no state and no pending request.
C8_IgnoredWhenNotRunning ==
    [][(last'.sys = "interact" /\ state # "Running") =>
        /\ cells' = cells
        /\ state' = state
        /\ next' = next
        /\ last'.n = 0
        /\ panicked' = panicked]_vars

\* A click was handled in Over, on a board with covered cells left.
C8_Witness ==
    /\ last.sys = "interact" /\ state = "Over"
    /\ last.before = "Covered"

\* ---------------------------------------------------------------------- C9
\* C9: while Running, ToggleFlag makes a Covered target Flagged and a
\* Flagged target Covered, changes no other cell, uncovers nothing and
\* requests no state change; toggling the now Flagged cell again gives back
\* the grid from before the first toggle (the target Covered, with the
\* covered material).
C9_ToggleFlag ==
    [][(ClickStep("Secondary") /\ state = "Running") =>
        /\ next' = next
        /\ state' = state
        /\ ~panicked'
        /\ last'.n = 0
        /\ last'.before = "Covered" =>
              \E t \in Entities :
                 /\ Open(t)
                 /\ cells' = [cells EXCEPT ![t].flagged = TRUE,
                                           ![t].material = "flagged"]
                 /\ \A ord \in QueryOrders :
                       interact(World(cells', next'), "Secondary", t, state', ord)
                         = World([cells EXCEPT ![t].material = "covered"], next)
        /\ last'.before = "Flagged" =>
              \E t \in Entities :
                 /\ CellState(cells[t]) = "Flagged"
                 /\ cells' = [cells EXCEPT ![t].flagged = FALSE,
                                           ![t].material = "covered"]]_vars

\* The second of two toggles: a Flagged cell was just made Covered again.
C9_Witness ==
    /\ AfterClick("Secondary") /\ last.before = "Flagged"
    /\ state = "Running"
    /\ \A e \in Entities : ~cells[e].flagged

\* --------------------------------------------------------------------- C10
\* C10: a freshly generated board has exactly X*Y cells, one per coordinate
\* (x = index mod X, y = index div X, in range), exactly min(BOMBS, X*Y)
\* of them mines, all Covered and unflagged.
C10_Board ==
    (last.sys = "state_transition" /\ state = "Prepare" /\ ~panicked) =>
        /\ Entities = 0..(X * Y - 1)
        /\ \A x \in 0..(X - 1), y \in 0..(Y - 1) :
              Cardinality({e \in Entities : cells[e].x = x /\ cells[e].y = y}) = 1
        /\ \A e \in Entities :
              /\ cells[e].x = e % X /\ cells[e].y = e \div X
              /\ 0 <= cells[e].x /\ cells[e].x < X
              /\ 0 <= cells[e].y /\ cells[e].y < Y
              /\ CellState(cells[e]) = "Covered"
              /\ cells[e].material = "covered"
        /\ Cardinality({e \in Entities : cells[e].is_bomb}) = Min(BOMBS, X * Y)

\* A board regenerated after a restart, with more bombs asked than cells.
C10_Witness ==
    /\ last.sys = "state_transition" /\ state = "Prepare" /\ ~panicked
    /\ pc = "main"
    /\ BOMBS > X * Y
    /\ \A e \in Entities : cells[e].is_bomb

\* --------------------------------------------------------------------- C11
\* The cells a Reveal on t starts from: t itself when it is Covered, the
\* Covered, unflagged neighbours of t when t is uncovered and carries enough
\* flags, nothing otherwise.
RevealStart(t) ==
    IF cells[t].flagged THEN {}
    ELSE IF cells[t].covered THEN {t}
    ELSE IF FlagCount(t) >= MineCount(t) THEN {d \in Neighbours(t) : Open(d)}
    ELSE {}

\* The cells whose Covered component the command that led from `cells` to
\* the grid g removed.
Uncovered(g) == {e \in Entities : cells[e].covered /\ ~g[e].covered}

\* C11: in every reachable state, a click of either button on any cell gives
\* the same grid, the same pending request and the same number of uncover
\* events in both neighbour orders; a Reveal gives the grid that depends on
\* the start cells only (their closure through zero-count cells), and the
\* uncover observer runs once per cell uncovered, a cell queued again being
\* skipped.
C11_OrderIndependent ==
    (pc = "main" /\ ~panicked) =>
        \A t \in Entities, button \in PointerButton :
            LET asc == interact(World(cells, next), button, t, state, "asc")
                desc == interact(World(cells, next), button, t, state, "desc")
            IN /\ asc = desc
               /\ asc.n = Cardinality(Uncovered(asc.g))
               /\ (button = "Primary" /\ state = "Running") =>
                     /\ asc.g = Shown(CascadeFrom(RevealStart(t)))
                     /\ asc.next = IF \E d \in RevealStart(t) : cells[d].is_bomb
                                   THEN "Over" ELSE next

\* One Reveal has uncovered the four cells of a 2 x 2 board: the cells
\* diagonal to the target were queued by more than one neighbour.
C11_Witness ==
    /\ AfterClick("Primary") /\ last.before = "Covered"
    /\ last.n = 4 /\ X = 2 /\ Y = 2
    /\ state = "Running"
    /\ \A e \in Entities : CellState(cells[e]) = "Revealed"

\* --------------------------------------------------------------------- C12
\* Cell e, Flagged before this step, is gone or no longer Flagged after it.
Unflagged(e) ==
    /\ CellState(cells[e]) = "Flagged"
    /\ e \in DOMAIN cells' => CellState(cells'[e]) # "Flagged"

\* C12: a Reveal leaves every Flagged cell exactly as it was, and a Reveal
\* whose target is Flagged changes nothing at all; a Flagged cell stops
\* being Flagged only by a ToggleFlag on a Flagged cell while Running, or by
\* the StateTransition that enters Over (the game ends) or leaves it.
C12_FlagProtected ==
    [][/\ ClickStep("Primary") =>
            /\ \A e \in Entities :
                  CellState(cells[e]) = "Flagged" => cells'[e] = cells[e]
            /\ last'.before = "Flagged" =>
                  /\ cells' = cells
                  /\ next' = next
                  /\ last'.n = 0
                  /\ ~panicked'
       /\ \A e \in Entities :
            Unflagged(e) =>
                \/ /\ ClickStep("Secondary") /\ state = "Running"
                   /\ last'.before = "Flagged"
                \/ /\ last'.sys = "state_transition"
                   /\ state' # state
                   /\ state' = "Over" \/ state = "Over"]_vars

\* A chord on a 2 x 2 board has uncovered a cell next to a cell that is
\* Flagged without being a mine, and that cell is still Flagged.
C12_Witness ==
    /\ AfterClick("Primary") /\ last.before = "Revealed"
    /\ last.n >= 1 /\ X = 2 /\ Y = 2
    /\ state = "Running"
    /\ \E e \in Entities : CellState(cells[e]) = "Flagged" /\ ~cells[e].is_bomb

\* --------------------------------------------------------------------- C13
\* This step regenerates the board: the StateTransition that enters Prepare.
Regenerates == last'.sys = "state_transition" /\ state' = "Prepare"

\* C13: as long as the board is not regenerated, a cell without Covered
\* (Revealed or Exploded) keeps every component it has under every step, so
\* it never gets Covered back and never gets Flagged; a ToggleFlag whose
\* target is Revealed or Exploded changes no cell and requests nothing.
C13_NoRevert ==
    [][/\ \A e \in Entities :
            (~cells[e].covered /\ ~Regenerates) =>
                e \in DOMAIN cells' /\ cells'[e] = cells[e]
       /\ (ClickStep("Secondary") /\ last'.before \in {"Revealed", "Exploded"}) =>
            /\ cells' = cells
            /\ next' = next
            /\ last'.n = 0
            /\ ~panicked']_vars

\* While Running, ToggleFlag was just applied to a Revealed cell, next to
\* a cell that is still Covered.
C13_Witness ==
    /\ AfterClick("Secondary") /\ last.before = "Revealed"
    /\ state = "Running"
    /\ \E e \in Entities : CellState(cells[e]) = "Revealed"
    /\ \E e \in Entities : CellState(cells[e]) = "Covered"

\* --------------------------------------------------------------------- C14
\* A mine has been uncovered by a player command: while Running only a
\* click uncovers cells (reveal_bombs runs on entering Over).
MineHit == \E e \in Entities : CellState(cells[e]) = "Exploded"

\* Every non-mine cell is Revealed: every cell still Covered is a mine.
AllSafeRevealed == \A e \in Entities : cells[e].covered => cells[e].is_bomb

\* C14: Over is entered from Running only, by the StateTransition that
\* applies a pending request, with a mine uncovered by a click or with
\* every non-mine cell Revealed; the request itself is made only by a Reveal
\* that uncovers a mine or by the win check on a board whose Covered cells
\* are all mines; and when Over is entered without a mine hit, every cell
\* that is Covered or Flagged afterwards is a mine.
C14_EndsOnlyOnMineOrWin ==
    [][/\ (state' = "Over" /\ state # "Over") =>
            /\ state = "Running" /\ next = "Over"
            /\ last'.sys = "state_transition"
            /\ MineHit \/ AllSafeRevealed
            /\ ~MineHit =>
                  \A e \in DOMAIN cells' :
                      (cells'[e].covered \/ cells'[e].flagged) => cells'[e].is_bomb
       /\ (next' = "Over" /\ next # "Over") =>
            /\ state = "Running"
            /\ \/ /\ ClickStep("Primary")
                  /\ \E e \in Entities :
                        cells[e].is_bomb /\ cells[e].covered /\ ~cells'[e].covered
               \/ /\ last'.sys = "success"
                  /\ AllSafeRevealed]_vars

\* Over was just entered on a won board: every non-mine cell is Revealed
\* and every mine still carries the flag the player put on it, so none was
\* uncovered by a click (a Reveal never uncovers a Flagged cell).
C14_Witness ==
    /\ state = "Over" /\ last.sys = "state_transition"
    /\ \E e \in Entities : cells[e].is_bomb
    /\ \E e \in Entities : ~cells[e].is_bomb
    /\ \A e \in Entities :
          IF cells[e].is_bomb THEN cells[e].flagged /\ ~cells[e].covered
          ELSE CellState(cells[e]) = "Revealed"

\* --------------------------------------------------------------------- C15
\* A Reveal has decided the game: it uncovered a mine, or it revealed the
\* last non-mine cell.
Decided ==
    \/ MineHit
    \/ /\ AllSafeRevealed
       /\ \E e \in Entities : CellState(cells[e]) = "Revealed"

\* C15 (as claimed): once a Reveal has uncovered a mine or revealed the last
\* non-mine cell, no later click (Reveal or ToggleFlag) changes the state of
\* any cell before the board is regenerated.
C15_NoWindow ==
    [][(last'.sys = "interact" /\ Decided) =>
          \A e \in Entities : CellState(cells'[e]) = CellState(cells[e])]_vars

\* --------------------------------------------------------------------- C16
\* C16 (as claimed): a Reveal whose target is an Exploded cell changes no
\* cell, uncovers nothing (no chord onto its Covered neighbours) and
\* requests no state change.
C16_ExplodedNoOp ==
    [][(ClickStep("Primary") /\ last'.before = "Exploded") =>
          /\ cells' = cells
          /\ last'.n = 0
          /\ next' = next
          /\ ~panicked']_vars

\* --------------------------------------------------------------------- C17
\* The board prepare spawns: one cell per index, Covered, not Flagged, with
\* the covered material.
FreshBoard(g) ==
    /\ DOMAIN g = 0..(X * Y - 1)
    /\ \A e \in DOMAIN g :
          g[e].covered /\ ~g[e].flagged /\ g[e].material = "covered"

\* C17 (as claimed): Over is left for Prepare only, on a request that only
\* restart makes and only in Over; the StateTransition that leaves Over
\* does not panic, requests nothing but Running, and leaves a fresh board,
\* every cell Covered and unflagged; the next StateTransition then enters
\* Running with that board.
C17_Restart ==
    [][/\ (state = "Over" /\ state' # "Over") =>
            /\ state' = "Prepare" /\ next = "Prepare"
            /\ last'.sys = "state_transition"
            /\ ~panicked'
            /\ next' = "Running"
            /\ FreshBoard(cells')
       /\ (next' = "Prepare" /\ next # "Prepare") =>
            last'.sys = "restart" /\ state = "Over"
       /\ (last'.sys = "restart") =>
            state = "Over" /\ state' = state /\ cells' = cells
       /\ (state = "Prepare" /\ pc = "main" /\ last'.sys = "state_transition") =>
            state' = "Running" /\ cells' = cells /\ FreshBoard(cells')]_vars

\* --------------------------------------------------------------------- C18
\* C18: every click is handled to the end, the uncover observer running
\* once for each cell that goes from Covered to uncovered and so at most
\* X * Y times (and no more often than there were Covered cells); a cell
\* that has left Covered does not carry Covered again before the board is
\* regenerated, so it leaves Covered at most once per session.
C18_Terminates ==
    [][/\ last'.sys = "interact" =>
            /\ DOMAIN cells' = Entities
            /\ last'.n = Cardinality({e \in Entities :
                                        cells[e].covered /\ ~cells'[e].covered})
            /\ last'.n <= Cardinality({e \in Entities : cells[e].covered})
            /\ last'.n <= X * Y
       /\ \A e \in Entities :
            (~cells[e].covered /\ ~Regenerates) =>
                e \in DOMAIN cells' /\ ~cells'[e].covered]_vars

\* One Reveal on a strip of four cells has uncovered all of them: a chain
\* of uncover events queued one by another.
C18_Witness ==
    /\ AfterClick("Primary") /\ last.before = "Covered"
    /\ X * Y = 4 /\ (X = 1 \/ Y = 1)
    /\ last.n = X * Y
    /\ \A e \in Entities : ~cells[e].covered

\* --------------------------------------------------------------------- C19
\* Cell e is Exploded after this step and was not before it.
Explodes(e) ==
    /\ CellState(cells[e]) # "Exploded"
    /\ e \in DOMAIN cells' /\ CellState(cells'[e]) = "Exploded"

\* C19: while Running, a Reveal whose target is a Covered, unflagged
\* non-mine cell uncovers no mine, whatever the cascade reaches, and
\* requests no state change; a click that does leave a mine Exploded is a
\* Reveal of a Covered mine or a Reveal of an uncovered cell (a chord).
C19_CascadeSafe ==
    [][/\ RevealsNonMine =>
            /\ \A e \in Entities : ~Explodes(e)
            /\ \A e \in Entities : cells[e].is_bomb => cells'[e] = cells[e]
            /\ next' = next
       /\ (last'.sys = "interact" /\ \E e \in Entities : Explodes(e)) =>
            /\ last'.button = "Primary"
            /\ \/ last'.before = "Covered" /\ last'.is_bomb
               \/ last'.before \in {"Revealed", "Exploded"}]_vars

\* A cascade has run on a board with a mine, and stopped short of it: three
\* cells of a strip are Revealed, the mine is still Covered.
C19_Witness ==
    /\ AfterClick("Primary") /\ last.before = "Covered" /\ ~last.is_bomb
    /\ last.n = 3
    /\ state = "Running" /\ next = "Unchanged"
    /\ ~MineHit
    /\ \E e \in Entities : cells[e].is_bomb /\ CellState(cells[e]) = "Covered"

====
